---- MODULE Spec2Model ----
(***************************************************************************)
(* State-machine model of src/car_rental_system.py: the CarRentalSystem    *)
(* registry (inventory, customers, rentals, bills, three id counters) and  *)
(* its operations add_car, register_customer, rent_cars, return_cars,      *)
(* together with Rental.calculate_bill, Bill.__init__, Bill.mark_as_paid   *)
(* and the unit count of Bill.generate_invoice.                            *)
(*                                                                         *)
(* Objects are identified by the key under which the registry stores them: *)
(* a Car by its car_id, a Customer by its customer_id, a Rental by its     *)
(* rental_id.  Python's None is the empty tuple, an Optional value x is    *)
(* the one-element tuple <<x>>.  Timestamps are whole seconds; prices are  *)
(* whole currency units (the seeded fleet's 200.0 / 1000.0 / 4750.0 are    *)
(* integral), so float rounding of price sums is outside the model.        *)
(***************************************************************************)
EXTENDS Integers, Sequences, FiniteSets, TLC

VARIABLES inventory, customers, rentals, bills,
          customer_counter, rental_counter, bill_counter, out

registry == <<inventory, customers, rentals, bills,
              customer_counter, rental_counter, bill_counter>>
vars == <<inventory, customers, rentals, bills,
          customer_counter, rental_counter, bill_counter, out>>

\* ------------------------------------------------------------------ bounds
\* Cars seeded by _initialize_inventory (the source seeds 50).
InitFleetSize == 2
\* Successful register_customer calls explored.
MaxCustomers == 2
\* Successful rent_cars calls explored.
MaxRentals == 2

\* ------------------------------------------------------------- constants
SecondsPerHour == 3600
HoursPerDay == 24
DaysPerWeek == 7
IdWidth == 4
CarIdWidth == 3
BalenoHourly == 200
BalenoDaily == 1000
BalenoWeekly == 4750

None == <<>>
Some(x) == <<x>>

RentalBasis == {"HOURLY", "DAILY", "WEEKLY"}

\* ------------------------------------------------------------ id format
RECURSIVE Digits(_)
Digits(n) == IF n < 10 THEN <<n>> ELSE Digits(n \div 10) \o <<n % 10>>

\* Python's format spec 0<w>d: at least w digits, zero-filled on the left.
ZeroPad(n, w) ==
    LET d == Digits(n)
    IN IF Len(d) >= w THEN d ELSE [i \in 1..(w - Len(d)) |-> 0] \o d

\* Mutants of RentalId and BillId: the number without its zero padding; the
\* bill counter's value before its increment.
RentalId_unpadded(n) == <<"R">> \o Digits(n)
BillId_stale(n) == <<"B">> \o ZeroPad(IF n > 1 THEN n - 1 ELSE 1, IdWidth)

CarId(i) == <<"BAL">> \o ZeroPad(i, CarIdWidth)
CustomerId(n) == <<"CUST">> \o ZeroPad(n, IdWidth)
RentalId(n) == <<"R">> \o ZeroPad(n, IdWidth)
BillId(n) == <<"B">> \o ZeroPad(n, IdWidth)

\* ------------------------------------------------------------- records
\* Car.__init__: a freshly constructed car is available and untagged.
Car(car_id, price_hourly, price_daily, price_weekly) ==
    [car_id |-> car_id,
     price_hourly |-> price_hourly,
     price_daily |-> price_daily,
     price_weekly |-> price_weekly,
     available |-> TRUE,
     rental_start_time |-> None,
     rental_basis |-> None]

\* Customer.__init__
Customer(customer_id) ==
    [customer_id |-> customer_id, rented_cars |-> <<>>, rental_history |-> <<>>]

\* Mutant of Rental: the end_time initialised to the start_time.
Rental_closed_at_start(rental_id, customer, cars, rental_basis, start_time) ==
    [rental_id |-> rental_id,
     customer |-> customer,
     cars |-> cars,
     rental_basis |-> rental_basis,
     start_time |-> start_time,
     end_time |-> Some(start_time),
     bill_amount |-> 0]

\* Rental.__init__
Rental(rental_id, customer, cars, rental_basis, start_time) ==
    [rental_id |-> rental_id,
     customer |-> customer,
     cars |-> cars,
     rental_basis |-> rental_basis,
     start_time |-> start_time,
     end_time |-> None,
     bill_amount |-> 0]

\* ------------------------------------------------------------- inputs
\* Timestamps handed to rent_cars and return_cars under Spec.
StartTimes == {3600}
ReturnTimes == {0, 7200}
\* Timestamps under SpecBilling: elapsed times below, on and across the unit
\* boundaries of the three tiers, and return times before the start.
BillingStartTimes == {0, 3600}
BillingReturnTimes == {0, 1, 3599, 3600, 10800, 86400, 172800, 604800, 1209600}
\* Wall-clock readings of datetime.now() under Spec.
Clock == {7200}
\* Wall-clock readings when calculate_bill is called directly.
BillingClock == {1, 172800}
\* car_count as a caller may pass it: up to one more than the seeded fleet,
\* and the values the menu would have rejected.
PositiveCarCounts == 1..(InitFleetSize + 1)
NonPositiveCarCounts == {-1, 0}
CustomerIds == {CustomerId(n) : n \in 1..MaxCustomers}
RentalIds == {RentalId(n) : n \in 1..MaxRentals}
\* Cars a caller constructs and hands to add_car: one with a seeded id, one new.
NewCars == {Car(CarId(1), 150, 900, 4000), Car(<<"SWF">> \o ZeroPad(1, CarIdWidth), 150, 900, 4000)}

\* ------------------------------------------------------------- helpers
Range(s) == {s[i] : i \in 1..Len(s)}
Max(a, b) == IF a >= b THEN a ELSE b

RECURSIVE sum(_)
sum(s) == IF s = <<>> THEN 0 ELSE Head(s) + sum(Tail(s))

\* int(a / b) for b > 0: Python's int() truncates toward zero.
IntOfQuotient(a, b) == IF a >= 0 THEN a \div b ELSE -((-a) \div b)

\* seq[:count] in Python: a negative count drops that many from the end.
SliceTo(s, count) ==
    IF count >= 0
    THEN SubSeq(s, 1, IF count < Len(s) THEN count ELSE Len(s))
    ELSE SubSeq(s, 1, Max(Len(s) + count, 0))

\* Mutant of Remove: list.pop() in place of list.remove(x).
Remove_pop(s, x) == SubSeq(s, 1, Len(s) - 1)

\* list.remove(x): drops the first occurrence of x.
RECURSIVE Remove(_, _)
Remove(s, x) ==
    IF s = <<>> THEN <<>>
    ELSE IF Head(s) = x THEN Tail(s)
    ELSE <<Head(s)>> \o Remove(Tail(s), x)

\* Mutant of InventoryIds: the membership test looks at no key.
InventoryIds_none == {}

\* The Car object the inventory holds under car_id.
CarOf(car_id) ==
    inventory[CHOOSE i \in 1..Len(inventory) : inventory[i].car_id = car_id]

InventoryIds == {inventory[i].car_id : i \in 1..Len(inventory)}

\* ------------------------------------------------------ Billing Calculator
\* Mutants of days and weeks: the hourly divisor copied into the daily
\* branch; the weekly count without its floor of one unit.
days_by_hour(seconds) == Max(1, IntOfQuotient(seconds, SecondsPerHour))
weeks_unfloored(seconds) == IntOfQuotient(seconds, DaysPerWeek * HoursPerDay * SecondsPerHour)

\* Rental.calculate_bill, the three branches' unit counts.
hours(seconds) == Max(1, IntOfQuotient(seconds, SecondsPerHour))
days(seconds) == Max(1, IntOfQuotient(seconds, HoursPerDay * SecondsPerHour))
weeks(seconds) == Max(1, IntOfQuotient(seconds, DaysPerWeek * HoursPerDay * SecondsPerHour))

\* Mutant of calculate_bill: without a return_time the end_time is always
\* taken from the clock, also when one is set.
calculate_bill_restamps(rental, return_time, now) ==
    LET end_time == IF return_time # None THEN return_time ELSE Some(now)
        rental_duration == end_time[1] - rental.start_time
        cars == rental.cars
        bill_amount ==
            IF rental.rental_basis = "HOURLY"
            THEN sum([i \in 1..Len(cars) |-> CarOf(cars[i]).price_hourly * hours(rental_duration)])
            ELSE IF rental.rental_basis = "DAILY"
            THEN sum([i \in 1..Len(cars) |-> CarOf(cars[i]).price_daily * days(rental_duration)])
            ELSE sum([i \in 1..Len(cars) |-> CarOf(cars[i]).price_weekly * weeks(rental_duration)])
    IN [rental EXCEPT !.end_time = end_time, !.bill_amount = bill_amount]

\* Rental.calculate_bill: the rental as the call leaves it (end_time and
\* bill_amount assigned); the return value is its bill_amount.  now is the
\* wall clock read when neither return_time nor end_time is set.
calculate_bill(rental, return_time, now) ==
    LET end_time == IF return_time # None THEN return_time
                    ELSE IF rental.end_time = None THEN Some(now)
                    ELSE rental.end_time
        rental_duration == end_time[1] - rental.start_time
        cars == rental.cars
        bill_amount ==
            IF rental.rental_basis = "HOURLY"
            THEN sum([i \in 1..Len(cars) |-> CarOf(cars[i]).price_hourly * hours(rental_duration)])
            ELSE IF rental.rental_basis = "DAILY"
            THEN sum([i \in 1..Len(cars) |-> CarOf(cars[i]).price_daily * days(rental_duration)])
            ELSE IF rental.rental_basis = "WEEKLY"
            THEN sum([i \in 1..Len(cars) |-> CarOf(cars[i]).price_weekly * weeks(rental_duration)])
            ELSE rental.bill_amount
    IN [rental EXCEPT !.end_time = end_time, !.bill_amount = bill_amount]

\* Bill.__init__: amount is what rental.calculate_bill() returns; unpaid.
Bill(bill_id, rental, now) ==
    [bill_id |-> bill_id,
     rental |-> rental.rental_id,
     amount |-> calculate_bill(rental, None, now).bill_amount,
     paid |-> FALSE]

\* Mutant of duration_units: a started unit is displayed as a whole one.
duration_units_rounded_up(rental) ==
    LET duration == rental.end_time[1] - rental.start_time
        unit == IF rental.rental_basis = "HOURLY" THEN SecondsPerHour
                ELSE IF rental.rental_basis = "DAILY" THEN HoursPerDay * SecondsPerHour
                ELSE DaysPerWeek * HoursPerDay * SecondsPerHour
    IN Max(1, IntOfQuotient(duration + unit - 1, unit))

\* Bill.generate_invoice: the displayed duration_units.
duration_units(rental) ==
    LET duration == rental.end_time[1] - rental.start_time
    IN IF rental.rental_basis = "HOURLY"
       THEN Max(1, IntOfQuotient(duration, SecondsPerHour))
       ELSE IF rental.rental_basis = "DAILY"
       THEN Max(1, IntOfQuotient(duration, HoursPerDay * SecondsPerHour))
       ELSE Max(1, IntOfQuotient(duration, DaysPerWeek * HoursPerDay * SecondsPerHour))

\* ------------------------------------------------------------ Fleet Registry
\* CarRentalSystem._initialize_inventory
InitialInventory ==
    [i \in 1..InitFleetSize |-> Car(CarId(i), BalenoHourly, BalenoDaily, BalenoWeekly)]

\* CarRentalSystem.__init__
Init ==
    /\ inventory = InitialInventory
    /\ customers = <<>>
    /\ rentals = <<>>
    /\ bills = <<>>
    /\ customer_counter = 0
    /\ rental_counter = 0
    /\ bill_counter = 0
    /\ out = [op |-> "init"]

\* CarRentalSystem.add_car
add_car(car) ==
    IF car.car_id \in InventoryIds
    THEN /\ out' = [op |-> "add_car", car_id |-> car.car_id, ret |-> FALSE]
         /\ UNCHANGED registry
    ELSE /\ inventory' = Append(inventory, car)
         /\ out' = [op |-> "add_car", car_id |-> car.car_id, ret |-> TRUE]
         /\ UNCHANGED <<customers, rentals, bills,
                        customer_counter, rental_counter, bill_counter>>

\* CarRentalSystem.register_customer
register_customer ==
    LET customer_id == CustomerId(customer_counter + 1)
    IN /\ customer_counter < MaxCustomers
       /\ customer_counter' = customer_counter + 1
       /\ customers' = (customer_id :> Customer(customer_id)) @@ customers
       /\ out' = [op |-> "register_customer", ret |-> customer_id]
       /\ UNCHANGED <<inventory, rentals, bills, rental_counter, bill_counter>>

\* Mutant of find_customer: an unknown id falls back to the first customer.
find_customer_fallback(customer_id) ==
    IF customer_id \in DOMAIN customers THEN Some(customer_id)
    ELSE IF CustomerId(1) \in DOMAIN customers THEN Some(CustomerId(1))
    ELSE None

\* CarRentalSystem.find_customer
find_customer(customer_id) ==
    IF customer_id \in DOMAIN customers THEN Some(customer_id) ELSE None

\* Mutant of find_available_cars: the request fails when exactly count cars
\* are available.
find_available_cars_strict(count) ==
    LET available == SelectSeq(inventory, LAMBDA car : car.available)
        available_cars == [i \in 1..Len(available) |-> available[i].car_id]
    IN IF Len(available_cars) <= count THEN <<>> ELSE SliceTo(available_cars, count)

\* Mutant of find_available_cars: no check of the number available.
find_available_cars_partial(count) ==
    LET available == SelectSeq(inventory, LAMBDA car : car.available)
        available_cars == [i \in 1..Len(available) |-> available[i].car_id]
    IN SliceTo(available_cars, count)

\* CarRentalSystem.find_available_cars: car ids in inventory order.
find_available_cars(count) ==
    LET available == SelectSeq(inventory, LAMBDA car : car.available)
        available_cars == [i \in 1..Len(available) |-> available[i].car_id]
    IN IF Len(available_cars) < count THEN <<>> ELSE SliceTo(available_cars, count)

\* Mutant of MarkRented: only the first rented car is marked and tagged.
MarkRented_first_only(cars_to_rent, rental_basis, start_time) ==
    [i \in 1..Len(inventory) |->
        IF cars_to_rent # <<>> /\ inventory[i].car_id = Head(cars_to_rent)
        THEN [inventory[i] EXCEPT !.available = FALSE,
                                  !.rental_start_time = Some(start_time),
                                  !.rental_basis = Some(rental_basis)]
        ELSE inventory[i]]

\* rent_cars, "Update car status": every rented car is marked and tagged.
MarkRented(cars_to_rent, rental_basis, start_time) ==
    [i \in 1..Len(inventory) |->
        IF inventory[i].car_id \in Range(cars_to_rent)
        THEN [inventory[i] EXCEPT !.available = FALSE,
                                  !.rental_start_time = Some(start_time),
                                  !.rental_basis = Some(rental_basis)]
        ELSE inventory[i]]

\* CarRentalSystem.rent_cars
rent_cars(customer_id, car_count, rental_basis, start_time) ==
    LET customer == find_customer(customer_id)
        cars_to_rent == find_available_cars(car_count)
        rental_id == RentalId(rental_counter + 1)
        call == [op |-> "rent_cars", customer_id |-> customer_id, car_count |-> car_count]
    IN IF customer = None
       THEN /\ out' = call @@ [ret |-> None, msg |-> "customer not found"]
            /\ UNCHANGED registry
       ELSE IF cars_to_rent = <<>>
       THEN /\ out' = call @@ [ret |-> None, msg |-> "no cars"]
            /\ UNCHANGED registry
       ELSE /\ rental_counter < MaxRentals
            /\ rental_counter' = rental_counter + 1
            /\ rentals' = (rental_id :> Rental(rental_id, customer[1], cars_to_rent,
                                               rental_basis, start_time)) @@ rentals
            /\ inventory' = MarkRented(cars_to_rent, rental_basis, start_time)
            /\ customers' = [customers EXCEPT
                                ![customer[1]].rented_cars = @ \o cars_to_rent]
            /\ out' = call @@ [ret |-> Some(rental_id), msg |-> "rented"]
            /\ UNCHANGED <<bills, customer_counter, bill_counter>>

\* Mutant of already_returned: the guard never fires.
already_returned_never(rental) == FALSE

\* return_cars, the guard on a rental that already has an end_time.
already_returned(rental) == rental.end_time # None

\* Mutants of MarkReturned: the tag is left on the released cars; every car of
\* the inventory is released.
MarkReturned_keeps_tag(cars) ==
    [i \in 1..Len(inventory) |->
        IF inventory[i].car_id \in Range(cars)
        THEN [inventory[i] EXCEPT !.available = TRUE]
        ELSE inventory[i]]
MarkReturned_whole_inventory(cars) ==
    [i \in 1..Len(inventory) |->
        [inventory[i] EXCEPT !.available = TRUE,
                             !.rental_start_time = None,
                             !.rental_basis = None]]

\* Mutant of MarkReturned: only the rental's first car is released.
MarkReturned_first_only(cars) ==
    [i \in 1..Len(inventory) |->
        IF cars # <<>> /\ inventory[i].car_id = Head(cars)
        THEN [inventory[i] EXCEPT !.available = TRUE,
                                  !.rental_start_time = None,
                                  !.rental_basis = None]
        ELSE inventory[i]]

\* return_cars, "Update car status": every car of the rental is released.
MarkReturned(cars) ==
    [i \in 1..Len(inventory) |->
        IF inventory[i].car_id \in Range(cars)
        THEN [inventory[i] EXCEPT !.available = TRUE,
                                  !.rental_start_time = None,
                                  !.rental_basis = None]
        ELSE inventory[i]]

\* Mutant of RemoveReturned: only the rental's first car is removed.
RemoveReturned_head_only(rented_cars, cars) ==
    IF cars = <<>> THEN rented_cars ELSE Remove(rented_cars, Head(cars))

\* Mutant of RemoveReturned: the holdings are left as they are.
RemoveReturned_none(rented_cars, cars) == rented_cars

\* return_cars, "Update customer rentals": each car still held is removed once.
RECURSIVE RemoveReturned(_, _)
RemoveReturned(rented_cars, cars) ==
    IF cars = <<>> THEN rented_cars
    ELSE RemoveReturned(IF Head(cars) \in Range(rented_cars)
                        THEN Remove(rented_cars, Head(cars))
                        ELSE rented_cars,
                        Tail(cars))

\* CarRentalSystem.return_cars
return_cars(rental_id, return_time, now) ==
    LET call == [op |-> "return_cars", rental_id |-> rental_id, return_time |-> return_time]
    IN IF rental_id \notin DOMAIN rentals
       THEN /\ out' = call @@ [ret |-> None, msg |-> "rental not found"]
            /\ UNCHANGED registry
       ELSE IF already_returned(rentals[rental_id])
       THEN /\ out' = call @@ [ret |-> None, msg |-> "already returned"]
            /\ UNCHANGED registry
       ELSE LET rental == [rentals[rental_id] EXCEPT !.end_time = Some(return_time)]
                bill_id == BillId(bill_counter + 1)
            IN /\ inventory' = MarkReturned(rental.cars)
               /\ customers' = [customers EXCEPT
                     ![rental.customer].rented_cars = RemoveReturned(@, rental.cars),
                     ![rental.customer].rental_history = Append(@, rental_id)]
               /\ bill_counter' = bill_counter + 1
               /\ rentals' = [rentals EXCEPT ![rental_id] = calculate_bill(rental, None, now)]
               /\ bills' = (bill_id :> Bill(bill_id, rental, now)) @@ bills
               /\ out' = call @@ [ret |-> Some(bill_id), msg |-> "returned"]
               /\ UNCHANGED <<customer_counter, rental_counter>>

\* Mutant of mark_as_paid: the flag is flipped instead of set.
mark_as_paid_toggle(bill_id) ==
    /\ bill_id \in DOMAIN bills
    /\ bills' = [bills EXCEPT ![bill_id].paid = ~@]
    /\ out' = [op |-> "mark_as_paid", bill_id |-> bill_id]
    /\ UNCHANGED <<inventory, customers, rentals,
                   customer_counter, rental_counter, bill_counter>>

\* Bill.mark_as_paid, on a bill the registry holds.
mark_as_paid(bill_id) ==
    /\ bill_id \in DOMAIN bills
    /\ bills' = [bills EXCEPT ![bill_id].paid = TRUE]
    /\ out' = [op |-> "mark_as_paid", bill_id |-> bill_id]
    /\ UNCHANGED <<inventory, customers, rentals,
                   customer_counter, rental_counter, bill_counter>>

\* A direct call of Rental.calculate_bill on a rental the registry holds.
calculate_bill_call(rental_id, return_time, now) ==
    LET rental == calculate_bill(rentals[rental_id], return_time, now)
    IN /\ rental_id \in DOMAIN rentals
       /\ rentals' = [rentals EXCEPT ![rental_id] = rental]
       /\ out' = [op |-> "calculate_bill", rental_id |-> rental_id,
                  return_time |-> return_time, before |-> rentals[rental_id],
                  ret |-> rental.bill_amount]
       /\ UNCHANGED <<inventory, customers, bills,
                      customer_counter, rental_counter, bill_counter>>

\* ------------------------------------------------------------ specification
AddCar == \E car \in NewCars : add_car(car)
RegisterCustomer == register_customer
RentCars ==
    \E customer_id \in CustomerIds, rental_basis \in RentalBasis, start_time \in StartTimes :
        \/ \E car_count \in PositiveCarCounts :
              rent_cars(customer_id, car_count, rental_basis, start_time)
        \/ \E car_count \in NonPositiveCarCounts :
              rent_cars(customer_id, car_count, rental_basis, start_time)
ReturnCars ==
    \E rental_id \in RentalIds, return_time \in ReturnTimes, now \in Clock :
        return_cars(rental_id, return_time, now)

Next == AddCar \/ RegisterCustomer \/ RentCars \/ ReturnCars

Spec == Init /\ [][Next]_vars

\* The billing calculator on its inputs: one customer's first rentals, opened
\* and closed at every pair of BillingStartTimes and BillingReturnTimes.
BillingRegister == customer_counter < 1 /\ register_customer
BillingRentCars ==
    \E car_count \in PositiveCarCounts \cup NonPositiveCarCounts,
       rental_basis \in RentalBasis,
       start_time \in BillingStartTimes :
        /\ rental_counter < 1
        /\ rent_cars(CustomerId(1), car_count, rental_basis, start_time)
BillingReturnCars ==
    \E return_time \in BillingReturnTimes, now \in BillingReturnTimes :
        return_cars(RentalId(1), return_time, now)

NextBilling == AddCar \/ BillingRegister \/ BillingRentCars \/ BillingReturnCars

SpecBilling == Init /\ [][NextBilling]_vars

\* The billing calculator called again on the first rental, with and without
\* a return_time.
BillingCalculateBill ==
    \E return_time \in {None} \cup {Some(t) : t \in BillingReturnTimes},
       now \in BillingClock :
        /\ RentalId(1) \in DOMAIN rentals
        /\ calculate_bill_call(RentalId(1), return_time, now)

NextRebill == NextBilling \/ BillingCalculateBill

SpecRebill == Init /\ [][NextRebill]_vars

\* The registry operations and the payment of the bills they return.
MarkAsPaid == \E bill_id \in DOMAIN bills : mark_as_paid(bill_id)

NextPaid == Next \/ MarkAsPaid

SpecPaid == Init /\ [][NextPaid]_vars

\* ------------------------------------------------------------ properties
OpenRentals == {r \in DOMAIN rentals : rentals[r].end_time = None}
ClosedRentals == {r \in DOMAIN rentals : rentals[r].end_time # None}
AvailableIds == {inventory[i].car_id : i \in {j \in 1..Len(inventory) : inventory[j].available}}
Elapsed(r) == rentals[r].end_time[1] - rentals[r].start_time
AvailableInOrder ==
    LET idx == {j \in 1..Len(inventory) : inventory[j].available}
        nth[k \in 1..Cardinality(idx)] ==
            CHOOSE j \in idx : Cardinality({m \in idx : m < j}) = k - 1
    IN [k \in 1..Cardinality(idx) |-> inventory[nth[k]].car_id]

\* C1: every car of the inventory is available exactly when no open rental
\* (end_time absent) contains it.
C1_AvailableIffNoOpenRental ==
    \A i \in 1..Len(inventory) :
        inventory[i].available <=>
            ~(\E r \in OpenRentals : inventory[i].car_id \in Range(rentals[r].cars))

\* A car released by a closed rental is available while another car is held
\* by an open rental.
C1_Witness ==
    /\ \E r \in ClosedRentals : \E c \in Range(rentals[r].cars) : CarOf(c).available
    /\ \E r \in OpenRentals : \E c \in Range(rentals[r].cars) : ~CarOf(c).available

\* C2: return_cars on an open rental with a return_time earlier than the
\* rental's start_time is refused: it returns no bill and leaves the registry
\* (rental, cars, holdings, bills, bill counter) as it was.
C2_EarlyReturnRefused ==
    [][\A r \in OpenRentals :
          (/\ out'.op = "return_cars"
           /\ out'.rental_id = r
           /\ out'.return_time < rentals[r].start_time)
          => (out'.ret = None /\ UNCHANGED registry)]_vars

\* C3: return_cars on a rental whose end_time is set returns no bill and
\* leaves the whole registry unchanged.
C3_AlreadyClosedChangesNothing ==
    [][\A r \in ClosedRentals :
          (out'.op = "return_cars" /\ out'.rental_id = r)
          => (out'.ret = None /\ UNCHANGED registry)]_vars

\* A refused second return of a rental whose cars are meanwhile held by an
\* open rental.
C3_Witness ==
    /\ out.op = "return_cars"
    /\ out.msg = "already returned"
    /\ \E r \in OpenRentals :
          Range(rentals[r].cars) \cap Range(rentals[out.rental_id].cars) # {}

\* C4: rent_cars for n >= 1 cars by a registered customer, with fewer than n
\* cars available, returns no rental and leaves the whole registry unchanged.
C4_InsufficientInventoryChangesNothing ==
    [][(/\ out'.op = "rent_cars"
        /\ out'.customer_id \in DOMAIN customers
        /\ out'.car_count >= 1
        /\ Cardinality(AvailableIds) < out'.car_count)
       => (out'.ret = None /\ UNCHANGED registry)]_vars

\* A refused request for more cars than are available while some are.
C4_Witness ==
    /\ out.op = "rent_cars"
    /\ out.msg = "no cars"
    /\ out.car_count >= 1
    /\ AvailableIds # {}
    /\ Cardinality(AvailableIds) < out.car_count

\* C5: rent_cars with an unregistered customer id and return_cars with an
\* unknown rental id return nothing and leave the whole registry unchanged.
C5_NotFoundChangesNothing ==
    [][/\ (out'.op = "rent_cars" /\ out'.customer_id \notin DOMAIN customers)
          => (out'.ret = None /\ UNCHANGED registry)
       /\ (out'.op = "return_cars" /\ out'.rental_id \notin DOMAIN rentals)
          => (out'.ret = None /\ UNCHANGED registry)]_vars

\* A request by an unregistered customer id that the available cars and another,
\* registered customer could have served.
C5_Witness ==
    /\ out.op = "rent_cars"
    /\ out.customer_id \notin DOMAIN customers
    /\ out.car_count >= 1
    /\ Cardinality(AvailableIds) >= out.car_count
    /\ customers # <<>>

\* The claimed billing rule, stated on its own: whole units by integer
\* division of the elapsed seconds, at least one; the tier's prices summed.
UnitSeconds(rental_basis) ==
    IF rental_basis = "HOURLY" THEN 3600
    ELSE IF rental_basis = "DAILY" THEN 86400
    ELSE 604800
TierPrice(car_id, rental_basis) ==
    IF rental_basis = "HOURLY" THEN CarOf(car_id).price_hourly
    ELSE IF rental_basis = "DAILY" THEN CarOf(car_id).price_daily
    ELSE CarOf(car_id).price_weekly
TierPriceSum(r) ==
    LET cars == rentals[r].cars
    IN sum([i \in 1..Len(cars) |-> TierPrice(cars[i], rentals[r].rental_basis)])
ClaimedUnits(r) == Max(1, Elapsed(r) \div UnitSeconds(rentals[r].rental_basis))
BillsOf(r) == {b \in DOMAIN bills : bills[b].rental = r}

\* C6: for every closed rental, the bill's amount and the rental's
\* bill_amount both equal units * (sum of its cars' prices for its tier), with
\* units = max(1, elapsed seconds integer-divided by the tier's unit length).
C6_AmountIsUnitsTimesPriceSum ==
    \A r \in ClosedRentals :
        /\ rentals[r].bill_amount = ClaimedUnits(r) * TierPriceSum(r)
        /\ BillsOf(r) # {}
        /\ \A b \in BillsOf(r) : bills[b].amount = ClaimedUnits(r) * TierPriceSum(r)

\* An hourly rental of cars with different hourly prices, closed after three
\* hours and billed three times the sum of the prices.
C6_Witness ==
    \E r \in ClosedRentals :
        /\ rentals[r].rental_basis = "HOURLY"
        /\ Elapsed(r) = 3 * 3600
        /\ Len(rentals[r].cars) >= 2
        /\ \E c, d \in Range(rentals[r].cars) :
              CarOf(c).price_hourly # CarOf(d).price_hourly
        /\ \E b \in BillsOf(r) : bills[b].amount = 3 * TierPriceSum(r)

\* C7: a rental closed after less than one unit of its tier is billed exactly
\* one unit's price per car, and every closed rental is billed at least one
\* unit per car (never 0).
C7_MinimumOneUnit ==
    \A r \in ClosedRentals :
        /\ Elapsed(r) < UnitSeconds(rentals[r].rental_basis)
              => rentals[r].bill_amount = TierPriceSum(r)
        /\ rentals[r].bill_amount >= TierPriceSum(r)
        /\ rentals[r].bill_amount > 0
        /\ \A b \in BillsOf(r) : bills[b].amount = rentals[r].bill_amount

\* A daily rental closed one second after it was opened, billed one day.
C7_Witness ==
    \E r \in ClosedRentals :
        /\ rentals[r].rental_basis = "DAILY"
        /\ Elapsed(r) = 1
        /\ rentals[r].bill_amount = TierPriceSum(r)

\* C8: a rental is created open with bill_amount 0; once its end_time is set,
\* no registry operation changes its end_time or bill_amount; no rental is
\* ever removed from the rentals map.
C8_LifecycleOneWay ==
    [][/\ DOMAIN rentals \subseteq DOMAIN rentals'
       /\ \A r \in DOMAIN rentals' \ DOMAIN rentals :
             rentals'[r].end_time = None /\ rentals'[r].bill_amount = 0
       /\ \A r \in ClosedRentals :
             /\ rentals'[r].end_time = rentals[r].end_time
             /\ rentals'[r].bill_amount = rentals[r].bill_amount]_vars

\* A closed rental that a later return_cars call, with another return time,
\* tried to close again.
C8_Witness ==
    /\ out.op = "return_cars"
    /\ out.rental_id \in ClosedRentals
    /\ rentals[out.rental_id].end_time # Some(out.return_time)

\* C9: a rental that rent_cars creates holds exactly car_count cars (at least
\* 1), the first car_count available cars in inventory order; a request with
\* car_count <= 0 creates no rental and marks no car unavailable.
C9_RentalHoldsCarCountCars ==
    [][out'.op = "rent_cars" =>
         /\ out'.ret # None =>
               /\ out'.car_count >= 1
               /\ Len(rentals'[out'.ret[1]].cars) = out'.car_count
               /\ rentals'[out'.ret[1]].cars = SubSeq(AvailableInOrder, 1, out'.car_count)
         /\ out'.car_count <= 0 =>
               (out'.ret = None /\ UNCHANGED <<inventory, rentals>>)]_vars

\* C10: every car in a customer's rented_cars is unavailable and is contained
\* in an open rental of that same customer.
C10_HoldingsAreOpenRentalCars ==
    \A c \in DOMAIN customers :
        \A car_id \in Range(customers[c].rented_cars) :
            /\ ~CarOf(car_id).available
            /\ \E r \in OpenRentals :
                  rentals[r].customer = c /\ car_id \in Range(rentals[r].cars)

\* A customer who has returned one rental and still holds the cars of
\* another, while a second customer exists.
C10_Witness ==
    \E c \in DOMAIN customers :
        /\ customers[c].rented_cars # <<>>
        /\ customers[c].rental_history # <<>>
        /\ DOMAIN customers # {c}

\* C11: bills and closed rentals correspond one to one: every bill references
\* a closed rental, every closed rental is referenced by exactly one bill, and
\* no bill references an open rental.
C11_BillsMatchClosedRentals ==
    /\ \A b \in DOMAIN bills : bills[b].rental \in ClosedRentals
    /\ \A r \in ClosedRentals : Cardinality(BillsOf(r)) = 1
    /\ \A r \in OpenRentals : BillsOf(r) = {}

\* Two closed rentals, each with its own bill.
C11_Witness ==
    /\ Cardinality(ClosedRentals) = 2
    /\ Cardinality(DOMAIN bills) = 2

\* The claimed id: the prefix and k as four decimal digits.
ClaimedId(prefix, k) ==
    <<prefix, (k \div 1000) % 10, (k \div 100) % 10, (k \div 10) % 10, k % 10>>
ClaimedIds(prefix, n) == {ClaimedId(prefix, k) : k \in 1..n}
Counters == <<customer_counter, rental_counter, bill_counter>>

\* C12: the k-th successful register_customer, rent_cars and return_cars
\* produce CUST, R and B followed by k as four zero-padded digits; a failed
\* call consumes no id; each counter equals the number of stored customers,
\* rentals and bills, whose keys are the ids issued so far; no counter ever
\* decreases.
C12_SequentialIds ==
    [][/\ DOMAIN customers' = ClaimedIds("CUST", customer_counter')
       /\ DOMAIN rentals' = ClaimedIds("R", rental_counter')
       /\ DOMAIN bills' = ClaimedIds("B", bill_counter')
       /\ \A id \in DOMAIN customers' : customers'[id].customer_id = id
       /\ \A id \in DOMAIN rentals' : rentals'[id].rental_id = id
       /\ \A id \in DOMAIN bills' : bills'[id].bill_id = id
       /\ customer_counter' >= customer_counter
       /\ rental_counter' >= rental_counter
       /\ bill_counter' >= bill_counter
       /\ out'.op = "register_customer" =>
             /\ customer_counter' = customer_counter + 1
             /\ out'.ret = ClaimedId("CUST", customer_counter')
       /\ out'.op = "rent_cars" =>
             IF out'.ret = None THEN Counters' = Counters
             ELSE /\ rental_counter' = rental_counter + 1
                  /\ out'.ret = Some(ClaimedId("R", rental_counter'))
       /\ out'.op = "return_cars" =>
             IF out'.ret = None THEN Counters' = Counters
             ELSE /\ bill_counter' = bill_counter + 1
                  /\ out'.ret = Some(ClaimedId("B", bill_counter'))
       /\ out'.op = "add_car" => Counters' = Counters]_vars

\* A failed rent_cars after two customers, two rentals and a bill were issued.
C12_Witness ==
    /\ out.op = "rent_cars"
    /\ out.ret = None
    /\ customer_counter = 2
    /\ rental_counter = 2
    /\ bill_counter >= 1

\* The number of the bill issued for closed rental r: its place in closing order.
BillNumber(r) == CHOOSE n \in 1..bill_counter : bills[BillId(n)].rental = r

HistoryIsClosedRentalsInOrder ==
    \A c \in DOMAIN customers :
        LET h == customers[c].rental_history
        IN /\ Range(h) = {r \in ClosedRentals : rentals[r].customer = c}
           /\ \A i, j \in 1..Len(h) : i < j => BillNumber(h[i]) < BillNumber(h[j])

\* C13: a successful return_cars(r) leaves none of r's cars in the owning
\* customer's rented_cars and appends r to that customer's rental_history;
\* every customer's rental_history holds exactly that customer's closed
\* rentals, each once, in closing order, and no open rental.
C13_HistoryAndHoldingsAfterReturn ==
    [][/\ (out'.op = "return_cars" /\ out'.ret # None) =>
             LET r == out'.rental_id
                 c == rentals[r].customer
             IN /\ Range(rentals[r].cars) \cap Range(customers'[c].rented_cars) = {}
                /\ customers'[c].rental_history = Append(customers[c].rental_history, r)
       /\ HistoryIsClosedRentalsInOrder']_vars

\* A customer who closed the second rental before the first.
C13_Witness ==
    \E c \in DOMAIN customers :
        customers[c].rental_history = <<RentalId(2), RentalId(1)>>

\* C14: add_car with an id the inventory already holds returns False and
\* leaves the registry unchanged (the held car, its prices, availability and
\* tag stay); add_car with a new id appends exactly that car.
C14_AddCarDuplicateRefused ==
    [][out'.op = "add_car" =>
         IF out'.car_id \in {inventory[i].car_id : i \in 1..Len(inventory)}
         THEN out'.ret = FALSE /\ UNCHANGED registry
         ELSE /\ out'.ret = TRUE
              /\ \E car \in NewCars :
                    car.car_id = out'.car_id /\ inventory' = Append(inventory, car)
              /\ UNCHANGED <<customers, rentals, bills, Counters>>]_vars

\* A refused add_car whose id is that of a car currently rented, with other
\* prices than the offered car's.
C14_Witness ==
    /\ out.op = "add_car"
    /\ out.ret = FALSE
    /\ ~CarOf(out.car_id).available
    /\ \A car \in NewCars : car.price_hourly # CarOf(out.car_id).price_hourly

\* C15: computing the amount of a closed rental again, with no return_time
\* or with the return_time it was closed at, returns the amount already
\* stored and leaves the rental's end_time and bill_amount unchanged.
C15_BillingIdempotent ==
    [][\A r \in ClosedRentals :
          (/\ out'.op = "calculate_bill"
           /\ out'.rental_id = r
           /\ out'.return_time \in {None, rentals[r].end_time})
          => /\ out'.ret = rentals[r].bill_amount
             /\ rentals'[r].end_time = rentals[r].end_time
             /\ rentals'[r].bill_amount = rentals[r].bill_amount]_vars

\* A rental closed by return_cars and billed several units, whose amount was
\* then computed again without a return_time.
C15_Witness ==
    /\ out.op = "calculate_bill"
    /\ out.return_time = None
    /\ out.before.end_time # None
    /\ BillsOf(out.rental_id) # {}
    /\ out.ret > TierPriceSum(out.rental_id)
    /\ out.ret = out.before.bill_amount

\* The open rentals that contain car_id.
OpenRentalsOf(car_id) == {r \in OpenRentals : car_id \in Range(rentals[r].cars)}

\* C16: a car's tag (rental_basis, rental_start_time) is set exactly when the
\* car is unavailable, and is then the tier and start time of the one open
\* rental containing it; an available car has both fields cleared.
C16_TagMatchesOpenRental ==
    \A i \in 1..Len(inventory) :
        LET car == inventory[i]
        IN IF car.available
           THEN car.rental_basis = None /\ car.rental_start_time = None
           ELSE /\ Cardinality(OpenRentalsOf(car.car_id)) = 1
                /\ \A r \in OpenRentalsOf(car.car_id) :
                      /\ car.rental_basis = Some(rentals[r].rental_basis)
                      /\ car.rental_start_time = Some(rentals[r].start_time)

\* Cars tagged with different tiers by two open rentals, beside an untagged
\* available car.
C16_Witness ==
    /\ \E i, j \in 1..Len(inventory) :
          /\ ~inventory[i].available
          /\ ~inventory[j].available
          /\ inventory[i].rental_basis # inventory[j].rental_basis
    /\ \E i \in 1..Len(inventory) : inventory[i].available

\* C17: for every bill, the duration_units the invoice displays is the unit
\* count the amount was computed with: amount = displayed units * sum of the
\* cars' prices for the tier.
C17_InvoiceUnitsMatchAmount ==
    \A b \in DOMAIN bills :
        bills[b].amount = duration_units(rentals[bills[b].rental]) * TierPriceSum(bills[b].rental)

\* A daily rental closed 47 hours after its start: displayed and billed 1 day.
C17_Witness ==
    \E b \in DOMAIN bills :
        LET r == bills[b].rental
        IN /\ rentals[r].rental_basis = "DAILY"
           /\ Elapsed(r) = 47 * 3600
           /\ duration_units(rentals[r]) = 1
           /\ bills[b].amount = TierPriceSum(r)

RegistryOps == {"add_car", "register_customer", "rent_cars", "return_cars"}

\* C18: a bill is unpaid when return_cars creates it; its paid flag becomes
\* true only by mark_as_paid on that bill and stays true; no registry
\* operation changes the paid flag or the amount of an existing bill.
C18_PaidOnlyByMarkAsPaid ==
    [][/\ \A b \in DOMAIN bills' \ DOMAIN bills :
             ~bills'[b].paid /\ out'.op = "return_cars" /\ out'.ret = Some(b)
       /\ \A b \in DOMAIN bills :
             /\ b \in DOMAIN bills'
             /\ bills'[b].amount = bills[b].amount
             /\ bills[b].paid => bills'[b].paid
             /\ (~bills[b].paid /\ bills'[b].paid)
                   => (out'.op = "mark_as_paid" /\ out'.bill_id = b)
             /\ out'.op \in RegistryOps => bills'[b] = bills[b]]_vars

\* return_cars has created a second, unpaid bill while the first is paid.
C18_Witness ==
    /\ out.op = "return_cars"
    /\ out.ret # None
    /\ ~bills[out.ret[1]].paid
    /\ \E b \in DOMAIN bills : bills[b].paid

\* C19: a customer's rented_cars holds exactly the cars of that customer's
\* open rentals, each once.
C19_HoldingsAreExactlyOpenRentalCars ==
    \A c \in DOMAIN customers :
        LET held == customers[c].rented_cars
        IN /\ Range(held) =
                 UNION {Range(rentals[r].cars) : r \in {q \in OpenRentals : rentals[q].customer = c}}
           /\ Cardinality(Range(held)) = Len(held)

\* A customer who opened two rentals and closed the first: the holdings are
\* the second rental's cars.
C19_Witness ==
    \E c \in DOMAIN customers :
        /\ RentalId(1) \in ClosedRentals
        /\ RentalId(2) \in OpenRentals
        /\ rentals[RentalId(1)].customer = c
        /\ rentals[RentalId(2)].customer = c
        /\ customers[c].rented_cars = rentals[RentalId(2)].cars

\* C20: a successful return_cars(r) changes only r, r's cars, the owning
\* customer's rented_cars and rental_history, the bills map and bill_counter:
\* every other rental, every car not in r, every other customer, every
\* existing bill and the customer and rental counters are unchanged, and the
\* owning customer keeps the cars of its other rentals.
C20_ReturnFrame ==
    [][(out'.op = "return_cars" /\ out'.ret # None) =>
         LET r == out'.rental_id
             c == rentals[r].customer
         IN /\ DOMAIN rentals' = DOMAIN rentals
            /\ \A q \in DOMAIN rentals \ {r} : rentals'[q] = rentals[q]
            /\ [rentals'[r] EXCEPT !.end_time = None, !.bill_amount = 0] = rentals[r]
            /\ Len(inventory') = Len(inventory)
            /\ \A i \in 1..Len(inventory) :
                  inventory[i].car_id \notin Range(rentals[r].cars)
                     => inventory'[i] = inventory[i]
            /\ DOMAIN customers' = DOMAIN customers
            /\ \A d \in DOMAIN customers \ {c} : customers'[d] = customers[d]
            /\ customers'[c].rented_cars =
                  SelectSeq(customers[c].rented_cars,
                            LAMBDA x : x \notin Range(rentals[r].cars))
            /\ \A b \in DOMAIN bills : b \in DOMAIN bills' /\ bills'[b] = bills[b]
            /\ customer_counter' = customer_counter
            /\ rental_counter' = rental_counter]_vars

\* A successful return by a customer who keeps another open rental.
C20_Witness ==
    /\ out.op = "return_cars"
    /\ out.ret # None
    /\ \E q \in OpenRentals : rentals[q].customer = rentals[out.rental_id].customer

\* C21: for a registered customer and car_count >= 1, rent_cars returns a
\* rental exactly when at least car_count cars are available at the call, so
\* a request refused for lack of cars succeeds once return_cars has freed
\* enough, and the cars of a closed rental are rented again.
C21_RentSucceedsIffEnoughAvailable ==
    [][(/\ out'.op = "rent_cars"
        /\ out'.customer_id \in DOMAIN customers
        /\ out'.car_count >= 1)
       => /\ out'.ret # None <=> Cardinality(AvailableIds) >= out'.car_count
          /\ out'.ret # None =>
                Range(rentals'[out'.ret[1]].cars) \subseteq AvailableIds]_vars

\* A request for every car of the inventory has succeeded after a rental that
\* held some of them was closed: while that rental was open it had to fail.
C21_Witness ==
    /\ out.op = "rent_cars"
    /\ out.ret # None
    /\ out.car_count = Len(inventory)
    /\ \E r \in ClosedRentals :
          /\ rentals[r].cars # <<>>
          /\ Range(rentals[r].cars) \subseteq Range(rentals[out.ret[1]].cars)

\* C22: no car is contained in more than one open rental, and an unavailable
\* car is contained in exactly one.
C22_AtMostOneOpenRentalPerCar ==
    \A i \in 1..Len(inventory) :
        LET n == Cardinality({r \in OpenRentals : inventory[i].car_id \in Range(rentals[r].cars)})
        IN n <= 1 /\ (~inventory[i].available => n = 1)

\* One customer holds two open rentals at once, and so do two different
\* customers in another run; here the same customer, every car rented.
C22_Witness ==
    /\ Cardinality(OpenRentals) = 2
    /\ \A r, q \in OpenRentals : rentals[r].customer = rentals[q].customer
    /\ \A i \in 1..Len(inventory) : ~inventory[i].available

====
